---- MODULE Spec2Model ----
(***************************************************************************)
(* Model of contrib/sbs/sbs.go: the side-by-side log replayer.             *)
(*                                                                         *)
(* processLog starts numGo workers, one producer goroutine that scans the  *)
(* log and sends the extracted requests on the buffered channel reqCh, and *)
(* one reporter goroutine; it then waits on the WaitGroup.                 *)
(*                                                                         *)
(* Text is modelled as a sequence of tokens, each token standing for one   *)
(* literal piece of text (see TokLen).  JSON payloads are sequences of     *)
(* JSON tokens.                                                            *)
(***************************************************************************)
EXTENDS Integers, Sequences, FiniteSets, TLC

----------------------------------------------------------------------------
(* Bounds of the model *)

\* largest value of the --workers flag that is explored (0..MaxWorkers)
MaxWorkers == 2

\* longest log (in lines) of the mixed logs
MaxLines == 2

\* longest run of query lines in the logs that fill the channel
MaxBurst == 6

----------------------------------------------------------------------------
(* Program constants *)

\* reqCh := make(chan *api.Request, opts.numGo*5)
ChanFactor == 5

\* bufio.NewScanner: the default buffer limit, bufio.MaxScanTokenSize
MaxScanTokenSize == 65536

----------------------------------------------------------------------------
(* Text as token sequences *)

\* number of characters each token stands for
\*   "G"   Got a query: query:        "Q"  the double quote
\*   "V"   vars:<                      ">"  >          "<"  <
\*   "K"   key:                        "L"  value:
\*   "\\"  one backslash               "c", "d"  letters that are no escape
\*   "PAD" a run of MaxScanTokenSize letters
\*   "VT"  a vertical tab, "ars:<" and "alue:" what follows it when
\*         strconv.Unquote reads \v out of \vars:< and \value:
TokLen(t) ==
    CASE t = "G" -> 19
      [] t = "V" -> 6
      [] t = "K" -> 4
      [] t = "L" -> 6
      [] t = "ars:<" -> 5
      [] t = "alue:" -> 5
      [] t = "PAD" -> MaxScanTokenSize
      [] OTHER -> 1

RECURSIVE TextLen(_)
TextLen(s) == IF s = <<>> THEN 0 ELSE TokLen(Head(s)) + TextLen(Tail(s))

\* s[i..j] (empty when j < i)
Slice(s, i, j) == IF j < i THEN <<>> ELSE SubSeq(s, i, j)

\* does s carry the literal p at position i
HasAt(s, p, i) ==
    /\ i >= 1
    /\ i + Len(p) - 1 <= Len(s)
    /\ \A k \in 1..Len(p) : s[i + k - 1] = p[k]

\* positions >= from at which the regexp  p(.*?)t  matches: the literal p
\* followed somewhere later by the token t
LazyStarts(s, p, t, from) ==
    { i \in from..Len(s) :
        /\ HasAt(s, p, i)
        /\ \E j \in (i + Len(p))..Len(s) : s[j] = t }

Min(S) == CHOOSE x \in S : \A y \in S : x <= y

\* leftmost match at or after from of  p(.*?)t : its first and last position,
\* the lazy .*? stopping at the first t.  found = FALSE is Go's nil result.
FindLazy(s, p, t, from) ==
    LET starts == LazyStarts(s, p, t, from) IN
    IF starts = {} THEN [found |-> FALSE, lo |-> 0, hi |-> 0]
    ELSE LET i == Min(starts)
             j == Min({ k \in (i + Len(p))..Len(s) : s[k] = t })
         IN [found |-> TRUE, lo |-> i, hi |-> j]

\* isQuery = `Got a query: query:(.*)` : m[1] is the rest of the line after
\* the leftmost marker; found = FALSE is len(m) = 0
isQuery(s) ==
    LET starts == { i \in 1..Len(s) : s[i] = "G" } IN
    IF starts = {} THEN [found |-> FALSE, m1 |-> <<>>]
    ELSE [found |-> TRUE, m1 |-> Slice(s, Min(starts) + 1, Len(s))]

\* queryRe = `".*?"` : qm[0], the quotes included
queryRe(s) ==
    LET m == FindLazy(s, <<"Q">>, "Q", 1) IN
    IF m.found THEN [found |-> TRUE, m0 |-> Slice(s, m.lo, m.hi)]
    ELSE [found |-> FALSE, m0 |-> <<>>]

\* varRe = `vars:<.*?>` with FindAllStringSubmatch(.., -1): the successive
\* non-overlapping matches v[0], left to right
RECURSIVE varReFrom(_, _)
varReFrom(s, from) ==
    LET m == FindLazy(s, <<"V">>, ">", from) IN
    IF ~m.found THEN <<>>
    ELSE <<Slice(s, m.lo, m.hi)>> \o varReFrom(s, m.hi + 1)

varRe(s) == varReFrom(s, 1)

\* keyRe = `key:"(.*?)"` : keys[1] when found
keyRe(s) ==
    LET m == FindLazy(s, <<"K", "Q">>, "Q", 1) IN
    IF m.found THEN [found |-> TRUE, m1 |-> Slice(s, m.lo + 2, m.hi - 1)]
    ELSE [found |-> FALSE, m1 |-> <<>>]

\* valRe = `value:"(.*?)"` : vals[1] when found
valRe(s) ==
    LET m == FindLazy(s, <<"L", "Q">>, "Q", 1) IN
    IF m.found THEN [found |-> TRUE, m1 |-> Slice(s, m.lo + 2, m.hi - 1)]
    ELSE [found |-> FALSE, m1 |-> <<>>]

\* the body of a double-quoted Go string literal without its quotes:
\* a backslash must start an escape sequence.  Of the tokens of the model
\* only another backslash and the letter v (of vars:< and value:) do.
RECURSIVE UnquoteBody(_)
UnquoteBody(b) ==
    IF b = <<>> THEN [ok |-> TRUE, s |-> <<>>]
    ELSE IF Head(b) # "\\" THEN
        LET r == UnquoteBody(Tail(b)) IN
        [ok |-> r.ok, s |-> IF r.ok THEN <<Head(b)>> \o r.s ELSE <<>>]
    ELSE IF Len(b) < 2 THEN [ok |-> FALSE, s |-> <<>>]
    ELSE LET e == b[2]
             r == UnquoteBody(Tail(Tail(b)))
             out == CASE e = "\\" -> <<"\\">>
                      [] e = "V" -> <<"VT", "ars:<">>
                      [] e = "L" -> <<"VT", "alue:">>
                      [] OTHER -> <<>>
         IN IF e \in {"\\", "V", "L"} /\ r.ok
            THEN [ok |-> TRUE, s |-> out \o r.s]
            ELSE [ok |-> FALSE, s |-> <<>>]

\* strconv.Unquote of qm[0], which is Q body Q with no Q inside body
Unquote(q) == UnquoteBody(Slice(q, 2, Len(q) - 1))

\* the loop over varStr: mp[keys[1]] = vals[1]; indexing a nil match panics
RECURSIVE bindVars(_, _)
bindVars(varStr, mp) ==
    IF varStr = <<>> THEN [panic |-> FALSE, mp |-> mp]
    ELSE LET keys == keyRe(Head(varStr))
             vals == valRe(Head(varStr))
         IN IF ~keys.found \/ ~vals.found
            THEN [panic |-> TRUE, mp |-> mp]
            ELSE bindVars(Tail(varStr),
                          [k \in (DOMAIN mp) \cup {keys.m1} |->
                              IF k = keys.m1 THEN vals.m1 ELSE mp[k]])

NoReq == [Query |-> <<>>, Vars |-> <<>>]

\* getReq: status "ok" with the request, "err" for a returned error,
\* "panic" for the index-out-of-range run-time panic
getReq(s) ==
    LET m == isQuery(s) IN
    IF ~m.found THEN [status |-> "err", req |-> NoReq]
    ELSE LET qm == queryRe(m.m1) IN
         IF ~qm.found THEN [status |-> "err", req |-> NoReq]
         ELSE LET query == Unquote(qm.m0) IN
              IF ~query.ok THEN [status |-> "err", req |-> NoReq]
              ELSE LET b == bindVars(varRe(m.m1), <<>>) IN
                   IF b.panic THEN [status |-> "panic", req |-> NoReq]
                   ELSE [status |-> "ok",
                         req |-> [Query |-> query.s, Vars |-> b.mp]]

----------------------------------------------------------------------------
(* JSON payloads as token sequences *)

\* tokens of a JSON text: the punctuation  { } [ ] , :  the numbers, the
\* quoted strings "sa" (for "a") and "sb" (for "b"), and the literals
JNumbers == {"0", "1", "2"}
JStrings == {"sa", "sb"}
JLiterals == {"null", "true", "false"}

JNull == [t |-> "lit", v |-> "null"]
JFail == [ok |-> FALSE, val |-> JNull, rest |-> <<>>]

\* the decoder of encoding/json into interface{}: a number becomes a
\* float64, a string a string, an array a []interface{}, an object a
\* map[string]interface{} (a repeated key keeps its last value)
RECURSIVE ParseValue(_)
RECURSIVE ParseElems(_, _)
RECURSIVE ParseMembers(_, _)

ParseValue(toks) ==
    IF toks = <<>> THEN JFail
    ELSE LET h == Head(toks)
             r == Tail(toks)
         IN CASE h \in JNumbers -> [ok |-> TRUE, val |-> [t |-> "num", v |-> h], rest |-> r]
              [] h \in JStrings -> [ok |-> TRUE, val |-> [t |-> "str", v |-> h], rest |-> r]
              [] h \in JLiterals -> [ok |-> TRUE, val |-> [t |-> "lit", v |-> h], rest |-> r]
              [] h = "[" ->
                   IF r # <<>> /\ Head(r) = "]"
                   THEN [ok |-> TRUE, val |-> [t |-> "arr", v |-> <<>>], rest |-> Tail(r)]
                   ELSE ParseElems(r, <<>>)
              [] h = "{" ->
                   IF r # <<>> /\ Head(r) = "}"
                   THEN [ok |-> TRUE, val |-> [t |-> "obj", v |-> <<>>], rest |-> Tail(r)]
                   ELSE ParseMembers(r, <<>>)
              [] OTHER -> JFail

ParseElems(toks, acc) ==
    LET e == ParseValue(toks) IN
    IF ~e.ok \/ e.rest = <<>> THEN JFail
    ELSE IF Head(e.rest) = "]"
         THEN [ok |-> TRUE, val |-> [t |-> "arr", v |-> Append(acc, e.val)],
               rest |-> Tail(e.rest)]
    ELSE IF Head(e.rest) = ","
         THEN ParseElems(Tail(e.rest), Append(acc, e.val))
    ELSE JFail

ParseMembers(toks, mp) ==
    IF Len(toks) < 3 \/ Head(toks) \notin JStrings \/ toks[2] # ":" THEN JFail
    ELSE LET key == Head(toks)
             e == ParseValue(Tail(Tail(toks)))
             mp2 == [k \in (DOMAIN mp) \cup {key} |->
                        IF k = key THEN e.val ELSE mp[k]]
         IN IF ~e.ok \/ e.rest = <<>> THEN JFail
            ELSE IF Head(e.rest) = "}"
                 THEN [ok |-> TRUE, val |-> [t |-> "obj", v |-> mp2],
                       rest |-> Tail(e.rest)]
            ELSE IF Head(e.rest) = ","
                 THEN ParseMembers(Tail(e.rest), mp2)
            ELSE JFail

\* Unmarshal decoding a text that is no JSON value to nil, with no error
Unmarshal_Lenient(s) ==
    LET r == ParseValue(s) IN
    IF r.ok /\ r.rest = <<>> THEN [ok |-> TRUE, val |-> r.val]
    ELSE [ok |-> TRUE, val |-> JNull]

\* json.Unmarshal([]byte(s), &o): err # nil when the text is no single value
Unmarshal(s) ==
    LET r == ParseValue(s) IN
    IF r.ok /\ r.rest = <<>> THEN [ok |-> TRUE, val |-> r.val]
    ELSE [ok |-> FALSE, val |-> JNull]

\* DeepEqual taking two arrays with the same elements in any order for equal
RECURSIVE DeepEqual_AnyOrder(_, _)
DeepEqual_AnyOrder(a, b) ==
    IF a.t # b.t THEN FALSE
    ELSE CASE a.t = "arr" ->
                /\ Len(a.v) = Len(b.v)
                /\ \A i \in 1..Len(a.v) :
                      \E j \in 1..Len(b.v) : DeepEqual_AnyOrder(a.v[i], b.v[j])
           [] a.t = "obj" ->
                /\ DOMAIN a.v = DOMAIN b.v
                /\ \A k \in DOMAIN a.v : DeepEqual_AnyOrder(a.v[k], b.v[k])
           [] OTHER -> a.v = b.v

\* reflect.DeepEqual of two decoded values
RECURSIVE DeepEqual(_, _)
DeepEqual(a, b) ==
    IF a.t # b.t THEN FALSE
    ELSE CASE a.t = "arr" ->
                /\ Len(a.v) = Len(b.v)
                /\ \A i \in 1..Len(a.v) : DeepEqual(a.v[i], b.v[i])
           [] a.t = "obj" ->
                /\ DOMAIN a.v = DOMAIN b.v
                /\ \A k \in DOMAIN a.v : DeepEqual(a.v[k], b.v[k])
           [] OTHER -> a.v = b.v

\* areEqualJSON taking a text that does not parse for equal to anything
areEqualJSON_ErrAsEqual(s1, s2) ==
    LET o1 == Unmarshal(s1) IN
    IF ~o1.ok THEN TRUE
    ELSE LET o2 == Unmarshal(s2) IN
         IF ~o2.ok THEN TRUE
         ELSE DeepEqual(o1.val, o2.val)

areEqualJSON(s1, s2) ==
    LET o1 == Unmarshal(s1) IN
    IF ~o1.ok THEN FALSE
    ELSE LET o2 == Unmarshal(s2) IN
         IF ~o2.ok THEN FALSE
         ELSE DeepEqual(o1.val, o2.val)

\* runQuery: the backend answers with an error, and the payload is then the
\* empty text, or with the text of resp.Json
QueryError == <<"error">>
runQuery(outcome) ==
    IF outcome = QueryError THEN [resp |-> <<>>, err |-> TRUE]
    ELSE [resp |-> outcome, err |-> FALSE]

----------------------------------------------------------------------------
(* The inputs: log lines and backend payloads *)

\* Got a query: query:"c" vars:<key:"c" value:"d">
LineQuery == <<"G", "Q", "c", "Q", "V", "K", "Q", "c", "Q", "L", "Q", "d", "Q", ">">>
\* a line without the marker phrase
LineNoise == <<"c", "d">>
\* the marker phrase without a quoted query
LineNoQuote == <<"G", "c">>
\* a query whose variable binding has a key and no value
LineNoValue == <<"G", "Q", "c", "Q", "V", "K", "Q", "c", "Q", ">">>
\* a query line longer than the scanner's buffer
LineLong == <<"G", "Q", "PAD", "Q">>

SampleLines == {LineQuery, LineNoise, LineNoQuote, LineNoValue, LineLong}

RECURSIVE SeqsUpTo(_, _)
SeqsUpTo(S, n) ==
    IF n = 0 THEN {<<>>}
    ELSE LET shorter == SeqsUpTo(S, n - 1) IN
         shorter \cup { Append(q, x) : q \in { t \in shorter : Len(t) = n - 1 }, x \in S }

\* every log of at most MaxLines sample lines
MixedLogs == SeqsUpTo(SampleLines, MaxLines)

\* n query lines, then at most one sample line
BurstLogs ==
    { [i \in 1..n |-> LineQuery] \o tail :
        n \in 0..MaxBurst, tail \in SeqsUpTo(SampleLines, 1) }

\* {"a":1,"b":2} and [1,2]
PayloadObj == <<"{", "sa", ":", "1", ",", "sb", ":", "2", "}">>
PayloadArr == <<"[", "1", ",", "2", "]">>
Payloads == {PayloadObj, PayloadArr}

\* what one backend call can come back with
Outcomes == Payloads \cup {QueryError}

----------------------------------------------------------------------------
(* The state of one run of processLog *)

VARIABLES
    numGo,      \* opts.numGo, the --workers flag
    lines,      \* the lines of the log file
    idx,        \* number of lines the scanner has returned
    prodpc,     \* producer goroutine: "unstarted", "scan", "send", "done"
    pending,    \* the request r the producer is sending
    reqCh,      \* the requests buffered in the channel
    closed,     \* close(reqCh) has happened
    sentLines,  \* history: the line numbers whose request was sent
    wk,         \* the workers: pc, request, responses, events of the request
    wgCount,    \* the WaitGroup counter
    spawned,    \* the loop variable i of the loop starting the workers
    mainpc,     \* processLog: "spawn", "startReporter", "wait", "returned", "exited"
    total,      \* the counter total
    failed,     \* the counter failed
    reports,    \* number of "Failed Query" entries logged
    reppc,      \* reporter goroutine: "unstarted", "idle", "loadFailed", "print"
    obsTotal,   \* the value the reporter loaded from total
    obsFailed,  \* the value the reporter loaded from failed
    crashed,    \* a goroutine panicked: the process is gone
    hist,       \* history: per line the receives, calls and total increments,
                \* the calls in flight on each backend, the closes of reqCh
    pure        \* the inputs and the result of a pure function under test

vars == <<numGo, lines, idx, prodpc, pending, reqCh, closed, sentLines, wk,
          wgCount, spawned, mainpc, total, failed, reports, reppc, obsTotal,
          obsFailed, crashed, hist, pure>>

prodVars == <<idx, prodpc, pending>>
chanVars == <<reqCh, closed, sentLines>>
mainVars == <<wgCount, spawned, mainpc>>
repVars == <<reppc, obsTotal, obsFailed>>
counters == <<total, failed>>

Workers == 1..numGo

IdleWorker(pc) ==
    [pc |-> pc, r |-> NoReq, respL |-> <<>>, respR |-> <<>>,
     errL |-> FALSE, errR |-> FALSE, ev |-> <<>>, line |-> 0]

\* no pure function is under test
NoPure == [stage |-> "none"]

\* trace: is the history of each line recorded in this run
NoHist(n, trace) ==
    [trace |-> trace,
     recv |-> [i \in 1..n |-> 0], callL |-> [i \in 1..n |-> 0],
     callR |-> [i \in 1..n |-> 0], counted |-> [i \in 1..n |-> 0],
     flyL |-> 0, flyR |-> 0, closes |-> 0]

InitFor(W, Logs, trace) ==
    /\ numGo \in W
    /\ lines \in Logs
    /\ idx = 0
    /\ prodpc = "unstarted"
    /\ pending = NoReq
    /\ reqCh = <<>>
    /\ closed = FALSE
    /\ sentLines = <<>>
    /\ wk = [w \in Workers |-> IdleWorker("unstarted")]
    /\ wgCount = 0
    /\ spawned = 0
    /\ mainpc = "spawn"
    /\ total = 0
    /\ failed = 0
    /\ reports = 0
    /\ reppc = "unstarted"
    /\ obsTotal = 0
    /\ obsFailed = 0
    /\ crashed = FALSE
    /\ hist = NoHist(Len(lines), trace)

Init == InitFor(0..MaxWorkers, MixedLogs, FALSE) /\ pure = NoPure

InitBurst == InitFor({1}, BurstLogs, FALSE) /\ pure = NoPure

\* a query line, a line that is skipped, a line on which getReq panics
TraceLines == {LineQuery, LineNoise, LineNoValue}

\* the history of each line is recorded: every worker count on the logs of
\* at most two lines, and every log on at most two workers
InitTrace ==
    /\ \/ InitFor(0..MaxWorkers, SeqsUpTo(TraceLines, 2), TRUE)
       \/ InitFor(0..2, SeqsUpTo(TraceLines, MaxLines), TRUE)
    /\ pure = NoPure

\* every worker count on the logs of at most two lines
PairLogs == SeqsUpTo(SampleLines, 2)
InitPairs == InitFor(0..MaxWorkers, PairLogs, FALSE) /\ pure = NoPure

\* getReq is a pure function: what it returns for each line of the logs
Extracted == [l \in SampleLines |-> getReq(l)]

\* goroutines run until the process exits or dies of a panic
Alive == ~crashed /\ mainpc # "exited"

\* capacity of reqCh
Cap == numGo * ChanFactor

\* bufio.Scanner gives up on a line that does not fit its buffer
Fits(line) == TextLen(line) < MaxScanTokenSize

\* defer f.Close() has run
FileClosed == mainpc \in {"returned", "exited"}

\* the line whose request is at the head of reqCh (the channel is a FIFO)
HeadLine == sentLines[Len(sentLines) - Len(reqCh) + 1]

\* one more event of line i in the history f, when the run is traced
Bump(f, i) == IF hist.trace THEN [f EXCEPT ![i] = @ + 1] ELSE f

----------------------------------------------------------------------------
(* processLog itself *)

\* for i := 0; i < opts.numGo; i++ { wg.Add(1); go worker(&wg) }
MainSpawn ==
    /\ Alive
    /\ mainpc = "spawn"
    /\ spawned < numGo
    /\ spawned' = spawned + 1
    /\ wgCount' = wgCount + 1
    /\ wk' = [wk EXCEPT ![spawned + 1] = IdleWorker("recv")]
    /\ UNCHANGED <<numGo, lines, hist, pure, prodVars, chanVars, mainpc,
                   counters, reports, repVars, crashed>>

\* MainStartProducer taken before the worker loop has finished
MainStartProducer_Early ==
    /\ Alive
    /\ mainpc = "spawn"
    /\ prodpc' = "scan"
    /\ mainpc' = "startReporter"
    /\ UNCHANGED <<numGo, lines, hist, pure, idx, pending, chanVars, wk,
                   wgCount, spawned, counters, reports, repVars, crashed>>

\* go func() { scan := bufio.NewScanner(f) ... }()
MainStartProducer ==
    /\ Alive
    /\ mainpc = "spawn"
    /\ spawned = numGo
    /\ prodpc' = "scan"
    /\ mainpc' = "startReporter"
    /\ UNCHANGED <<numGo, lines, hist, pure, idx, pending, chanVars, wk,
                   wgCount, spawned, counters, reports, repVars, crashed>>

\* go func() { ticker := time.NewTicker(5 * time.Second) ... }()
MainStartReporter ==
    /\ Alive
    /\ mainpc = "startReporter"
    /\ reppc' = "idle"
    /\ mainpc' = "wait"
    /\ UNCHANGED <<numGo, lines, hist, pure, prodVars, chanVars, wk, wgCount,
                   spawned, counters, reports, obsTotal, obsFailed, crashed>>

\* wg.Wait() returns and processLog with it (the deferred f.Close() runs)
MainReturn ==
    /\ Alive
    /\ mainpc = "wait"
    /\ wgCount = 0
    /\ mainpc' = "returned"
    /\ UNCHANGED <<numGo, lines, hist, pure, prodVars, chanVars, wk, wgCount,
                   spawned, counters, reports, repVars, crashed>>

\* run returns nil, main returns: the process and its goroutines end
ProcessExit ==
    /\ ~crashed
    /\ mainpc = "returned"
    /\ mainpc' = "exited"
    /\ UNCHANGED <<numGo, lines, hist, pure, prodVars, chanVars, wk, wgCount,
                   spawned, counters, reports, repVars, crashed>>

----------------------------------------------------------------------------
(* The producer goroutine *)

MoreLines == idx < Len(lines) /\ Fits(lines[idx + 1])

\* ProducerSkip without its continue: the nil request is sent
ProducerSkip_NoContinue ==
    /\ Alive
    /\ prodpc = "scan"
    /\ MoreLines
    /\ Extracted[lines[idx + 1]].status = "err"
    /\ idx' = idx + 1
    /\ pending' = Extracted[lines[idx + 1]].req
    /\ prodpc' = "send"
    /\ UNCHANGED <<numGo, lines, hist, pure, chanVars, wk, mainVars, counters,
                   reports, repVars, crashed>>

\* scan.Scan() returns a line and getReq returns an error: continue
ProducerSkip ==
    /\ Alive
    /\ prodpc = "scan"
    /\ MoreLines
    /\ Extracted[lines[idx + 1]].status = "err"
    /\ idx' = idx + 1
    /\ UNCHANGED <<numGo, lines, hist, pure, prodpc, pending, chanVars, wk,
                   mainVars, counters, reports, repVars, crashed>>

\* scan.Scan() returns a line and getReq returns a request
ProducerExtract ==
    /\ Alive
    /\ prodpc = "scan"
    /\ MoreLines
    /\ Extracted[lines[idx + 1]].status = "ok"
    /\ idx' = idx + 1
    /\ pending' = Extracted[lines[idx + 1]].req
    /\ prodpc' = "send"
    /\ UNCHANGED <<numGo, lines, hist, pure, chanVars, wk, mainVars, counters,
                   reports, repVars, crashed>>

\* scan.Scan() returns a line and getReq panics: no goroutine recovers, the
\* Go run time ends the process
ProducerPanic ==
    /\ Alive
    /\ prodpc = "scan"
    /\ MoreLines
    /\ Extracted[lines[idx + 1]].status = "panic"
    /\ idx' = idx + 1
    /\ crashed' = TRUE
    /\ UNCHANGED <<numGo, lines, hist, pure, prodpc, pending, chanVars, wk,
                   mainVars, counters, reports, repVars>>

\* ProducerSend on a channel without a bound
ProducerSend_NoLimit ==
    /\ Alive
    /\ prodpc = "send"
    /\ ~closed
    /\ reqCh' = Append(reqCh, pending)
    /\ sentLines' = Append(sentLines, idx)
    /\ pending' = NoReq
    /\ prodpc' = "scan"
    /\ UNCHANGED <<numGo, lines, hist, pure, idx, closed, wk, mainVars,
                   counters, reports, repVars, crashed>>

\* reqCh <- r : blocks while the buffer is full
ProducerSend ==
    /\ Alive
    /\ prodpc = "send"
    /\ ~closed
    /\ Len(reqCh) < Cap
    /\ reqCh' = Append(reqCh, pending)
    /\ sentLines' = Append(sentLines, idx)
    /\ pending' = NoReq
    /\ prodpc' = "scan"
    /\ UNCHANGED <<numGo, lines, hist, pure, idx, closed, wk, mainVars,
                   counters, reports, repVars, crashed>>

\* ProducerClose inside the loop: the queue is closed after any line
ProducerClose_InLoop ==
    /\ Alive
    /\ prodpc = "scan"
    /\ closed' = TRUE
    /\ hist' = [hist EXCEPT !.closes = @ + 1]
    /\ UNCHANGED <<numGo, lines, pure, prodVars, reqCh, sentLines, wk,
                   mainVars, counters, reports, repVars, crashed>>

\* scan.Scan() returns false (end of file, a line that does not fit the
\* buffer, or a read from the file closed under it): close(reqCh)
ProducerClose ==
    /\ Alive
    /\ prodpc = "scan"
    /\ ~MoreLines \/ FileClosed
    /\ closed' = TRUE
    /\ prodpc' = "done"
    /\ hist' = [hist EXCEPT !.closes = @ + 1]
    /\ UNCHANGED <<numGo, lines, pure, idx, pending, reqCh, sentLines, wk,
                   mainVars, counters, reports, repVars, crashed>>

----------------------------------------------------------------------------
(* A worker goroutine *)

\* WorkerRecv starting the left and the right call together
WorkerRecv_BothCalls(w) ==
    /\ Alive
    /\ wk[w].pc = "recv"
    /\ reqCh # <<>>
    /\ reqCh' = Tail(reqCh)
    /\ wk' = [wk EXCEPT ![w] = [IdleWorker("waitL") EXCEPT
                                    !.r = Head(reqCh),
                                    !.ev = <<"Lcall", "Rcall">>,
                                    !.line = IF hist.trace THEN HeadLine ELSE 0]]
    /\ hist' = [hist EXCEPT !.recv = Bump(@, HeadLine),
                            !.callL = Bump(@, HeadLine),
                            !.callR = Bump(@, HeadLine),
                            !.flyL = @ + 1,
                            !.flyR = @ + 1]
    /\ UNCHANGED <<numGo, lines, pure, prodVars, closed, sentLines, mainVars,
                   counters, reports, repVars, crashed>>

\* for r := range reqCh : a request is received; runQuery(r, dcLeft) starts
WorkerRecv(w) ==
    /\ Alive
    /\ wk[w].pc = "recv"
    /\ reqCh # <<>>
    /\ reqCh' = Tail(reqCh)
    /\ wk' = [wk EXCEPT ![w] = [IdleWorker("waitL") EXCEPT
                                    !.r = Head(reqCh), !.ev = <<"Lcall">>,
                                    !.line = IF hist.trace THEN HeadLine ELSE 0]]
    /\ hist' = [hist EXCEPT !.recv = Bump(@, HeadLine),
                            !.callL = Bump(@, HeadLine),
                            !.flyL = @ + 1]
    /\ UNCHANGED <<numGo, lines, pure, prodVars, closed, sentLines, mainVars,
                   counters, reports, repVars, crashed>>

\* WorkerExit leaving the loop on an empty channel that is not closed
WorkerExit_OnEmpty(w) ==
    /\ Alive
    /\ wk[w].pc = "recv"
    /\ reqCh = <<>>
    /\ wk' = [wk EXCEPT ![w].pc = "done"]
    /\ wgCount' = wgCount - 1
    /\ UNCHANGED <<numGo, lines, hist, pure, prodVars, chanVars, spawned,
                   mainpc, counters, reports, repVars, crashed>>

\* for r := range reqCh : the channel is closed and empty; defer wg.Done()
WorkerExit(w) ==
    /\ Alive
    /\ wk[w].pc = "recv"
    /\ reqCh = <<>>
    /\ closed
    /\ wk' = [wk EXCEPT ![w].pc = "done"]
    /\ wgCount' = wgCount - 1
    /\ UNCHANGED <<numGo, lines, hist, pure, prodVars, chanVars, spawned,
                   mainpc, counters, reports, repVars, crashed>>

\* WorkerLeftReturn skipping the right call when the left call failed
WorkerLeftReturn_ShortCircuit(w) ==
    /\ Alive
    /\ wk[w].pc = "waitL"
    /\ \E o \in Outcomes :
         wk' = [wk EXCEPT ![w].respL = runQuery(o).resp,
                          ![w].errL = runQuery(o).err,
                          ![w].ev = IF runQuery(o).err THEN @ \o <<"Lret">>
                                    ELSE @ \o <<"Lret", "Rcall">>,
                          ![w].pc = IF runQuery(o).err THEN "cmp" ELSE "waitR"]
    /\ hist' = [hist EXCEPT !.flyL = @ - 1]
    /\ UNCHANGED <<numGo, lines, pure, prodVars, chanVars, mainVars, counters,
                   reports, repVars, crashed>>

\* respL, err := runQuery(r, dcLeft) returns; runQuery(r, dcRight) starts
WorkerLeftReturn(w) ==
    /\ Alive
    /\ wk[w].pc = "waitL"
    /\ \E o \in Outcomes :
         wk' = [wk EXCEPT ![w].respL = runQuery(o).resp,
                          ![w].errL = runQuery(o).err,
                          ![w].ev = @ \o <<"Lret", "Rcall">>,
                          ![w].pc = "waitR"]
    /\ hist' = [hist EXCEPT !.flyL = @ - 1, !.flyR = @ + 1,
                            !.callR = Bump(@, wk[w].line)]
    /\ UNCHANGED <<numGo, lines, pure, prodVars, chanVars, mainVars, counters,
                   reports, repVars, crashed>>

\* respR, err := runQuery(r, dcRight) returns
WorkerRightReturn(w) ==
    /\ Alive
    /\ wk[w].pc = "waitR"
    /\ \E o \in Outcomes :
         wk' = [wk EXCEPT ![w].respR = runQuery(o).resp,
                          ![w].errR = runQuery(o).err,
                          ![w].ev = @ \o <<"Rret">>,
                          ![w].pc = "cmp"]
    /\ hist' = [hist EXCEPT !.flyR = @ - 1]
    /\ UNCHANGED <<numGo, lines, pure, prodVars, chanVars, mainVars, counters,
                   reports, repVars, crashed>>

\* WorkerCompare counting a mismatch without logging it
WorkerCompare_NoReport(w) ==
    /\ Alive
    /\ wk[w].pc = "cmp"
    /\ IF ~areEqualJSON(wk[w].respL, wk[w].respR)
       THEN /\ failed' = failed + 1
            /\ wk' = [wk EXCEPT ![w].ev = @ \o <<"cmp", "failed++">>,
                                ![w].pc = "addTotal"]
       ELSE /\ failed' = failed
            /\ wk' = [wk EXCEPT ![w].ev = @ \o <<"cmp">>,
                                ![w].pc = "addTotal"]
    /\ UNCHANGED <<numGo, lines, hist, pure, prodVars, chanVars, mainVars,
                   total, reports, repVars, crashed>>

\* if !areEqualJSON(respL, respR) { atomic.AddUint64(&failed, 1) ...
WorkerCompare(w) ==
    /\ Alive
    /\ wk[w].pc = "cmp"
    /\ IF ~areEqualJSON(wk[w].respL, wk[w].respR)
       THEN /\ failed' = failed + 1
            /\ wk' = [wk EXCEPT ![w].ev = @ \o <<"cmp", "failed++">>,
                                ![w].pc = "report"]
       ELSE /\ failed' = failed
            /\ wk' = [wk EXCEPT ![w].ev = @ \o <<"cmp">>,
                                ![w].pc = "addTotal"]
    /\ UNCHANGED <<numGo, lines, hist, pure, prodVars, chanVars, mainVars,
                   total, reports, repVars, crashed>>

\* WorkerReport re-driving the request that failed: a second left call
WorkerReport_Retry(w) ==
    /\ Alive
    /\ wk[w].pc = "report"
    /\ reports' = reports + 1
    /\ wk' = [wk EXCEPT ![w].ev = <<"Lcall">>,
                        ![w].pc = "waitL"]
    /\ hist' = [hist EXCEPT !.callL = Bump(@, wk[w].line), !.flyL = @ + 1]
    /\ UNCHANGED <<numGo, lines, pure, prodVars, chanVars, mainVars, counters,
                   repVars, crashed>>

\* klog.Infof("Failed Query: ...", r.Query, r.Vars, respL, respR)
WorkerReport(w) ==
    /\ Alive
    /\ wk[w].pc = "report"
    /\ reports' = reports + 1
    /\ wk' = [wk EXCEPT ![w].ev = @ \o <<"report">>,
                        ![w].pc = "addTotal"]
    /\ UNCHANGED <<numGo, lines, hist, pure, prodVars, chanVars, mainVars,
                   counters, repVars, crashed>>

\* WorkerAddTotal with a load and a store in place of the atomic add: the
\* increment is lost when another worker is between its load and its store
WorkerAddTotal_Racy(w) ==
    /\ Alive
    /\ wk[w].pc = "addTotal"
    /\ total' = IF \E v \in Workers \ {w} : wk[v].pc = "addTotal"
                THEN total ELSE total + 1
    /\ wk' = [wk EXCEPT ![w] = IdleWorker("recv")]
    /\ hist' = [hist EXCEPT !.counted = Bump(@, wk[w].line)]
    /\ UNCHANGED <<numGo, lines, pure, prodVars, chanVars, mainVars, failed,
                   reports, repVars, crashed>>

\* WorkerAddTotal counting in total only the requests that passed
WorkerAddTotal_PassedOnly(w) ==
    /\ Alive
    /\ wk[w].pc = "addTotal"
    /\ total' = IF "failed++" \in { wk[w].ev[i] : i \in 1..Len(wk[w].ev) }
                THEN total ELSE total + 1
    /\ wk' = [wk EXCEPT ![w] = IdleWorker("recv")]
    /\ hist' = [hist EXCEPT !.counted = Bump(@, wk[w].line)]
    /\ UNCHANGED <<numGo, lines, pure, prodVars, chanVars, mainVars, failed,
                   reports, repVars, crashed>>

\* atomic.AddUint64(&total, 1); the iteration ends
WorkerAddTotal(w) ==
    /\ Alive
    /\ wk[w].pc = "addTotal"
    /\ total' = total + 1
    /\ wk' = [wk EXCEPT ![w] = IdleWorker("recv")]
    /\ hist' = [hist EXCEPT !.counted = Bump(@, wk[w].line)]
    /\ UNCHANGED <<numGo, lines, pure, prodVars, chanVars, mainVars, failed,
                   reports, repVars, crashed>>

----------------------------------------------------------------------------
(* The reporter goroutine *)

\* ReporterLoadTotal reading total with a swap that resets it
ReporterLoadTotal_Swap ==
    /\ Alive
    /\ reppc = "idle"
    /\ obsTotal' = total
    /\ total' = 0
    /\ reppc' = "loadFailed"
    /\ UNCHANGED <<numGo, lines, hist, pure, prodVars, chanVars, wk, mainVars,
                   failed, reports, obsFailed, crashed>>

\* case <-ticker.C: the first argument, atomic.LoadUint64(&total)
ReporterLoadTotal ==
    /\ Alive
    /\ reppc = "idle"
    /\ obsTotal' = total
    /\ reppc' = "loadFailed"
    /\ UNCHANGED <<numGo, lines, hist, pure, prodVars, chanVars, wk, mainVars,
                   counters, reports, obsFailed, crashed>>

\* the second argument, atomic.LoadUint64(&failed)
ReporterLoadFailed ==
    /\ Alive
    /\ reppc = "loadFailed"
    /\ obsFailed' = failed
    /\ reppc' = "print"
    /\ UNCHANGED <<numGo, lines, hist, pure, prodVars, chanVars, wk, mainVars,
                   counters, reports, obsTotal, crashed>>

\* klog.Infof("Total: %d Failed: %d ", ...) and back to the select
ReporterPrint ==
    /\ Alive
    /\ reppc = "print"
    /\ obsTotal' = 0
    /\ obsFailed' = 0
    /\ reppc' = "idle"
    /\ UNCHANGED <<numGo, lines, hist, pure, prodVars, chanVars, wk, mainVars,
                   counters, reports, crashed>>

----------------------------------------------------------------------------

Next ==
    \/ MainSpawn
    \/ MainStartProducer
    \/ MainStartReporter
    \/ MainReturn
    \/ ProcessExit
    \/ ProducerSkip
    \/ ProducerExtract
    \/ ProducerPanic
    \/ ProducerSend
    \/ ProducerClose
    \/ \E w \in Workers : WorkerRecv(w)
    \/ \E w \in Workers : WorkerExit(w)
    \/ \E w \in Workers : WorkerLeftReturn(w)
    \/ \E w \in Workers : WorkerRightReturn(w)
    \/ \E w \in Workers : WorkerCompare(w)
    \/ \E w \in Workers : WorkerReport(w)
    \/ \E w \in Workers : WorkerAddTotal(w)
    \/ ReporterLoadTotal
    \/ ReporterLoadFailed
    \/ ReporterPrint

Spec == Init /\ [][Next]_vars

\* the logs that fill the channel, with one worker
SpecBurst == InitBurst /\ [][Next]_vars

\* the runs in which the history of each line is recorded
SpecTrace == InitTrace /\ [][Next]_vars

\* the runs on the logs of at most two lines
SpecPairs == InitPairs /\ [][Next]_vars

\* the Go scheduler lets every goroutine that can run take its next step; a
\* backend call returns before its timeout.  Nothing is assumed of the ticker.
MainStep == MainSpawn \/ MainStartProducer \/ MainStartReporter \/ MainReturn

ProducerStep ==
    ProducerSkip \/ ProducerExtract \/ ProducerPanic \/ ProducerSend \/ ProducerClose

WorkerStep(w) ==
    /\ w \in Workers
    /\ \/ WorkerRecv(w) \/ WorkerExit(w) \/ WorkerLeftReturn(w)
       \/ WorkerRightReturn(w) \/ WorkerCompare(w) \/ WorkerReport(w)
       \/ WorkerAddTotal(w)

Fairness ==
    /\ WF_vars(MainStep)
    /\ WF_vars(ProducerStep)
    /\ \A w \in 1..MaxWorkers : WF_vars(WorkerStep(w))

FairSpec == Init /\ [][Next]_vars /\ Fairness

----------------------------------------------------------------------------
(* areEqualJSON on its own: the two texts are drawn from the JSON texts
   below, each with the value it denotes written in canonical form (the
   members of an object in the order of KeyOrder) *)

MaxElems == 2

KeyOrder == <<"sa", "sb">>
Keys == { KeyOrder[i] : i \in 1..Len(KeyOrder) }

\* the texts of a sequence of items, separated by commas
RECURSIVE Join(_)
Join(ts) ==
    IF ts = <<>> THEN <<>>
    ELSE IF Len(ts) = 1 THEN ts[1]
    ELSE ts[1] \o <<",">> \o Join(Tail(ts))

Member(k, t) == <<k, ":">> \o t

JText(c, t) == [canon |-> c, text |-> t]

\* a number, a string
AtomsOf(T) == { JText(<<a>>, <<a>>) : a \in T }

\* [e1,e2,...] with at most MaxElems elements of E
ArraysOf(E) ==
    { JText(<<"[">> \o Join([i \in 1..Len(q) |-> q[i].canon]) \o <<"]">>,
            <<"[">> \o Join([i \in 1..Len(q) |-> q[i].text]) \o <<"]">>) :
        q \in SeqsUpTo(E, MaxElems) }

\* the members of q in the order of KeyOrder
SortedMembers(q) ==
    LET has(k) == \E i \in 1..Len(q) : q[i][1] = k
        at(k) == CHOOSE i \in 1..Len(q) : q[i][1] = k
        ks == SelectSeq(KeyOrder, has)
    IN [i \in 1..Len(ks) |-> Member(ks[i], q[at(ks[i])][2].canon)]

\* {"k1":e1,"k2":e2,...} with at most MaxElems members, distinct keys in
\* any order, values of E
ObjectsOf(E) ==
    { JText(<<"{">> \o Join(SortedMembers(q)) \o <<"}">>,
            <<"{">> \o Join([i \in 1..Len(q) |-> Member(q[i][1], q[i][2].text)])
                    \o <<"}">>) :
        q \in { m \in SeqsUpTo(Keys \X E, MaxElems) :
                  \A i, j \in 1..Len(m) : i # j => m[i][1] # m[j][1] } }

JNums == AtomsOf({"1", "2"})

\* [1,2], [2,1] and {"a":1,"b":2} in both member orders
JPairs ==
    { x \in ArraysOf(JNums) \cup ObjectsOf(JNums) :
        x.canon \in {PayloadArr, <<"[", "2", ",", "1", "]">>, PayloadObj} }

\* JSON values of depth 0, 1 and 2
JsonTexts ==
    AtomsOf({"1", "2", "sa"})
      \cup ArraysOf(AtomsOf({"1", "2", "sa"}))
      \cup ObjectsOf(JNums)
      \cup ArraysOf(JPairs)
      \cup ObjectsOf(JPairs)

\* texts that are no JSON value: the empty text (the payload of a failed
\* call), an unterminated object or array, two values, a key without value,
\* a trailing comma
Invalid == <<"invalid">>
Malformed ==
    { JText(Invalid, t) :
        t \in { <<>>, <<"{">>, <<"[", "1">>, <<"1", "2">>,
                <<"{", "sa", "}">>, <<"[", "1", ",", "]">> } }

InitJSON ==
    /\ InitFor({0}, {<<>>}, FALSE)
    /\ \E a, b \in JsonTexts \cup Malformed :
          pure = [stage |-> "args", a |-> a, b |-> b, eq |-> FALSE, qe |-> FALSE]

\* areEqualJSON(s1, s2), and areEqualJSON(s2, s1)
CallAreEqualJSON ==
    /\ pure.stage = "args"
    /\ pure' = [pure EXCEPT !.stage = "result",
                            !.eq = areEqualJSON(pure.a.text, pure.b.text),
                            !.qe = areEqualJSON(pure.b.text, pure.a.text)]
    /\ UNCHANGED <<numGo, lines, hist, prodVars, chanVars, wk, mainVars,
                   counters, reports, repVars, crashed>>

SpecJSON == InitJSON /\ [][CallAreEqualJSON]_vars

----------------------------------------------------------------------------
(* getReq on its own: a request is written as a log line of the shape
   Got a query: query:{query:"..." vars:<key:"k" value:"v"> ...}
   and the line is given to getReq *)

MaxText == 1

\* a letter, a double quote, a closing and an opening angle bracket
Alphabet == {"c", "Q", ">", "<"}

\* the texts of at most MaxText characters
Texts == SeqsUpTo(Alphabet, MaxText)

\* the names of variables: one character
KeyTexts == { <<a>> : a \in Alphabet }

\* a string between double quotes; with esc a double quote inside it is
\* written \" , as Go's %q and the protobuf text format write it
RECURSIVE Escape(_)
Escape(t) ==
    IF t = <<>> THEN <<>>
    ELSE (IF Head(t) \in {"Q", "\\"} THEN <<"\\", Head(t)>> ELSE <<Head(t)>>)
            \o Escape(Tail(t))

Quote(t, esc) == <<"Q">> \o (IF esc THEN Escape(t) ELSE t) \o <<"Q">>

\* vars:<key:"k" value:"v"> for each binding, in the order given
RECURSIVE EncodeVars(_, _)
EncodeVars(binds, esc) ==
    IF binds = <<>> THEN <<>>
    ELSE <<" ", "V", "K">> \o Quote(Head(binds)[1], esc)
            \o <<" ", "L">> \o Quote(Head(binds)[2], esc) \o <<">">>
            \o EncodeVars(Tail(binds), esc)

EncodeLine(query, binds, esc) ==
    <<"G", "{", "q:">> \o Quote(query, esc) \o EncodeVars(binds, esc) \o <<"}">>

\* the map of a list of bindings with unique keys
VarsOf(binds) ==
    [k \in { binds[i][1] : i \in 1..Len(binds) } |->
        binds[CHOOSE i \in 1..Len(binds) : binds[i][1] = k][2]]

\* the lists of at most two bindings with unique keys
Bindings ==
    { b \in SeqsUpTo(KeyTexts \X Texts, 2) :
        \A i, j \in 1..Len(b) : i # j => b[i][1] # b[j][1] }

InitGetReq ==
    /\ InitFor({0}, {<<>>}, FALSE)
    /\ \E query \in Texts, binds \in Bindings, esc \in BOOLEAN :
          pure = [stage |-> "line",
                  req |-> [Query |-> query, Vars |-> VarsOf(binds)],
                  binds |-> binds,
                  esc |-> esc,
                  line |-> EncodeLine(query, binds, esc),
                  out |-> [status |-> "none", req |-> NoReq]]

\* r, err := getReq(line)
CallGetReq ==
    /\ pure.stage = "line"
    /\ pure' = [pure EXCEPT !.stage = "extracted", !.out = getReq(pure.line)]
    /\ UNCHANGED <<numGo, lines, hist, prodVars, chanVars, wk, mainVars,
                   counters, reports, repVars, crashed>>

SpecGetReq == InitGetReq /\ [][CallGetReq]_vars

----------------------------------------------------------------------------
(* Vocabulary of the properties *)

\* processLog has returned to its caller
Returned == mainpc \in {"returned", "exited"}

\* the workers that hold a request: received and not yet counted in total
Busy == { w \in Workers : wk[w].pc \in {"waitL", "waitR", "cmp", "report", "addTotal"} }

\* the lines among the first n for which getReq returns a request
OkLines(n) == { i \in 1..n : Extracted[lines[i]].status = "ok" }

\* the lines among the first n for which getReq returns an error
ErrLines(n) == { i \in 1..n : Extracted[lines[i]].status = "err" }

\* the events of one request, in the order of the worker's loop body
Canon == <<"Lcall", "Lret", "Rcall", "Rret", "cmp", "failed++", "report">>

IsPrefix(a, b) == Len(a) <= Len(b) /\ a = SubSeq(b, 1, Len(a))

----------------------------------------------------------------------------
(* C1 *)

\* C1: when processLog returns, total equals the number M of requests that
\* were queued and 0 <= failed <= total, for every worker count and every
\* interleaving of producer, workers and reporter: no increment is lost.
C1_CountersAtReturn ==
    Returned =>
        /\ total = Len(sentLines)
        /\ 0 <= failed
        /\ failed <= total

\* two workers have handled two queued requests, one of them a mismatch
C1_Witness ==
    /\ mainpc = "returned"
    /\ numGo = 2
    /\ Len(sentLines) = 2
    /\ total = 2
    /\ failed = 1

----------------------------------------------------------------------------
(* C2 *)

\* C2: failed <= total at every observation point: in every state of the
\* shared counters, and for every pair (total, failed) the reporter has read
\* in one tick.
C2_FailedLeTotal ==
    /\ failed <= total
    /\ reppc = "print" => obsFailed <= obsTotal

----------------------------------------------------------------------------
(* C3 *)

\* the state the claim describes at the return of processLog
QueueDrained ==
    /\ closed
    /\ reqCh = <<>>
    /\ Busy = {}
    /\ pending = NoReq
    /\ \A w \in Workers : wk[w].pc = "done"
    /\ total = Cardinality(OkLines(idx))

\* C3 as stated, for any worker count: processLog returns only after the
\* queue is closed and drained and every extracted request is counted.
C3_AnyWorkerCount == Returned => QueueDrained

\* C3, amended: the same for every worker count W >= 1.
C3_ReturnAfterDrain == (Returned /\ numGo >= 1) => QueueDrained

\* processLog has returned after its workers handled a request
C3_Witness ==
    /\ mainpc = "returned"
    /\ numGo >= 1
    /\ total >= 1
    /\ closed

----------------------------------------------------------------------------
(* C4 *)

\* C4: for a finite log and W >= 1, with every backend call returning and
\* producer and workers scheduled fairly, the run eventually reaches Done:
\* the producer closes the queue, every worker ends and processLog returns.
C4_EventuallyDone == <>(numGo = 0 \/ (Returned /\ QueueDrained))

\* what the code does guarantee: the run ends Done unless the process dies
\* of the panic of getReq
C4_DoneUnlessPanic == <>(numGo = 0 \/ (Returned /\ QueueDrained) \/ crashed)

----------------------------------------------------------------------------
(* C5 *)

\* the line numbers in sentLines, as a set
SentSet == { sentLines[k] : k \in 1..Len(sentLines) }

\* C5: a line for which getReq returns an error is inert: nothing is
\* enqueued for it and no counter moves because of it.  The requests sent
\* are those of the lines read so far that getReq accepted, in source order
\* (the last one may still be in the producer's hand); the queue holds the
\* latest of them; and the counters account for sent requests only.
C5_ErrorLinesInert ==
    /\ SentSet = OkLines(idx) \ (IF prodpc = "send" THEN {idx} ELSE {})
    /\ SentSet \cap ErrLines(idx) = {}
    /\ \A j, k \in 1..Len(sentLines) : j < k => sentLines[j] < sentLines[k]
    /\ Len(reqCh) <= Len(sentLines)
    /\ \A k \in 1..Len(reqCh) :
         reqCh[k] = Extracted[lines[sentLines[Len(sentLines) - Len(reqCh) + k]]].req
    /\ total + Cardinality(Busy) + Len(reqCh) = Len(sentLines)
    /\ failed <= total + Cardinality(Busy)

\* a log with a line that fails extraction and a line that does not has
\* been replayed to the end
C5_Witness ==
    /\ mainpc = "returned"
    /\ ErrLines(idx) # {}
    /\ OkLines(idx) # {}
    /\ total = Cardinality(OkLines(idx))

----------------------------------------------------------------------------
(* C6 *)

\* exactly one of the two calls of worker w failed and the other returned a
\* payload that is valid JSON
OneSided(w) ==
    /\ wk[w].errL # wk[w].errR
    /\ wk[w].errL => Unmarshal(wk[w].respR).ok
    /\ wk[w].errR => Unmarshal(wk[w].respL).ok

C6_Counted ==
    \A w \in Workers :
        OneSided(w) =>
            /\ wk[w].pc = "report" => wk[w].ev = SubSeq(Canon, 1, 6)
            /\ wk[w].pc = "addTotal" => wk[w].ev = Canon

C6_Step ==
    \A w \in Workers :
        (OneSided(w) /\ wk'[w] # wk[w]) =>
            /\ wk[w].pc = "cmp" =>
                 failed' = failed + 1 /\ total' = total /\ wk'[w].pc = "report"
            /\ wk[w].pc = "report" =>
                 failed' = failed /\ total' = total /\ wk'[w].pc = "addTotal"
            /\ wk[w].pc = "addTotal" =>
                 failed' = failed /\ total' = total + 1 /\ wk'[w].pc = "recv"

\* C6: a request with exactly one failed backend call and a valid payload on
\* the other side makes its worker increment failed exactly once and total
\* exactly once, and the worker goes back to the queue for the next request.
C6_OneSidedFailure == []C6_Counted /\ [][C6_Step]_vars

\* a worker has counted a one-sided failure as failed and is about to count
\* it in total
C6_Witness ==
    \E w \in Workers :
        /\ OneSided(w)
        /\ wk[w].errR
        /\ wk[w].pc = "addTotal"
        /\ failed >= 1

----------------------------------------------------------------------------
(* C7 *)

\* C7: in the handling of one request the left call has returned before the
\* right call starts, the right call is made also when the left call failed,
\* and the comparison comes after both calls have returned.
C7_LeftThenRight ==
    \A w \in Workers :
        LET e == wk[w].ev
            pc == wk[w].pc
        IN /\ IsPrefix(e, Canon)
           /\ pc = "waitL" => e = SubSeq(Canon, 1, 1)
           /\ pc = "waitR" => e = SubSeq(Canon, 1, 3)
           /\ pc = "cmp" => e = SubSeq(Canon, 1, 4)
           /\ pc \in {"report", "addTotal"} => Len(e) >= 5
           /\ wk[w].errL => Len(e) >= 3

\* the left call failed, the right call was made all the same and has
\* returned, and the worker is about to compare
C7_Witness ==
    \E w \in Workers :
        /\ wk[w].errL
        /\ wk[w].pc = "cmp"
        /\ wk[w].ev = SubSeq(Canon, 1, 4)

----------------------------------------------------------------------------
(* C8 *)

\* C8: nothing in the per-line path aborts the run: a line whose variable
\* binding lacks its key or its value is skipped or fails with an error, it
\* never crashes the process.
C8_NeverCrashes == ~crashed

----------------------------------------------------------------------------
(* C9 *)

\* C9: the channel never buffers more than its capacity, 5 x W requests;
\* the producer's send is blocked while the buffer is full; and the producer
\* holds at most one request that is extracted and not yet enqueued.
C9_Backpressure ==
    /\ Len(reqCh) <= ChanFactor * numGo
    /\ Len(reqCh) = ChanFactor * numGo => ~ENABLED ProducerSend
    /\ Cardinality(OkLines(idx)) - Len(sentLines) = (IF prodpc = "send" THEN 1 ELSE 0)
    /\ (pending # NoReq) <=> (prodpc = "send")

\* the buffer of the single worker's channel is full, the worker is busy and
\* the producer waits with one request in hand
C9_Witness ==
    /\ numGo = 1
    /\ Len(reqCh) = ChanFactor
    /\ Busy # {}
    /\ prodpc = "send"
    /\ pending # NoReq
    /\ idx = ChanFactor + 2

----------------------------------------------------------------------------
(* C10 *)

\* C10: a mismatch is reported at once: the worker that finds two payloads
\* unequal logs the mismatch once, before it counts the request in total and
\* takes the next one; equal payloads are not logged and leave failed alone;
\* so reports and failed differ only by the workers that are about to log,
\* and are equal when the run is Done.
C10_ReportedAtOnce ==
    /\ failed = reports + Cardinality({ w \in Workers : wk[w].pc = "report" })
    /\ \A w \in Workers :
         /\ wk[w].pc = "addTotal" =>
              wk[w].ev = (IF areEqualJSON(wk[w].respL, wk[w].respR)
                          THEN SubSeq(Canon, 1, 5) ELSE Canon)
         /\ wk[w].pc = "report" =>
              /\ ~areEqualJSON(wk[w].respL, wk[w].respR)
              /\ wk[w].ev = SubSeq(Canon, 1, 6)
         /\ wk[w].pc \in {"unstarted", "recv", "done"} => wk[w].ev = <<>>
    /\ Returned => reports = failed

\* the run is Done after one request that matched and one that did not
C10_Witness ==
    /\ mainpc = "returned"
    /\ numGo >= 1
    /\ total = 2
    /\ failed = 1
    /\ reports = 1

----------------------------------------------------------------------------
(* C11 *)

\* the workers that hold the request of line i
Holders(i) == { w \in Busy : wk[w].line = i }

\* C11: each request is consumed exactly once and never retried.  A line is
\* received at most once, and only after it was sent; its request gets one
\* left call, then one right call, then one increment of total, whatever
\* the calls return; a request that was sent is in the queue, or with
\* exactly one worker, or counted: none is duplicated and none is lost; and
\* when processLog returns with W >= 1 every sent request has had its one
\* left call, its one right call and its one increment of total.
C11_ExactlyOnce ==
    /\ \A i \in 1..Len(lines) :
         /\ hist.recv[i] <= 1
         /\ hist.callL[i] = hist.recv[i]
         /\ hist.callR[i] <= hist.callL[i]
         /\ hist.counted[i] <= hist.callR[i]
         /\ hist.recv[i] = 1 => i \in SentSet
         /\ Cardinality(Holders(i)) = hist.recv[i] - hist.counted[i]
         /\ \A w \in Holders(i) :
              /\ wk[w].r = Extracted[lines[i]].req
              /\ hist.callR[i] = (IF wk[w].pc = "waitL" THEN 0 ELSE 1)
    /\ \A w \in Busy : wk[w].line \in 1..Len(lines)
    /\ Len(sentLines) =
         Len(reqCh) + Cardinality({ i \in 1..Len(lines) : hist.recv[i] = 1 })
    /\ \A k \in 1..Len(reqCh) :
         hist.recv[sentLines[Len(sentLines) - Len(reqCh) + k]] = 0
    /\ total = Cardinality({ i \in 1..Len(lines) : hist.counted[i] = 1 })
    /\ (numGo >= 1 /\ Returned) =>
         \A i \in SentSet :
            /\ hist.recv[i] = 1
            /\ hist.callL[i] = 1
            /\ hist.callR[i] = 1
            /\ hist.counted[i] = 1

\* two requests were sent and each was counted once, one of them after a
\* left call that failed
C11_Witness ==
    /\ numGo >= 1
    /\ Returned
    /\ Cardinality(SentSet) = 2
    /\ \A i \in SentSet : hist.counted[i] = 1 /\ hist.callL[i] = 1
    /\ failed = 1
    /\ total = 2

----------------------------------------------------------------------------
(* C12 *)

\* the workers whose goroutine was started
Started == { w \in Workers : wk[w].pc # "unstarted" }

C12_State ==
    /\ spawned <= numGo
    /\ Started = 1..spawned
    /\ (prodpc # "unstarted" \/ idx > 0 \/ sentLines # <<>>) =>
          /\ spawned = numGo
          /\ Started = Workers
    /\ \A w \in Workers :
          wk[w].pc = "done" => closed /\ reqCh = <<>> /\ prodpc = "done"

C12_Step ==
    /\ prodpc # "unstarted" => spawned' = spawned /\ Started' = Started
    /\ spawned' \in {spawned, spawned + 1}
    /\ \A w \in Workers :
          /\ wk[w].pc # "unstarted" => wk'[w].pc # "unstarted"
          /\ wk[w].pc = "done" => wk'[w].pc = "done"
          /\ (wk[w].pc # "done" /\ wk'[w].pc = "done") =>
                /\ wk[w].pc = "recv"
                /\ closed
                /\ reqCh = <<>>

\* C12: exactly W workers are started before streaming begins: the
\* producer is started, and a line is read, only when all W workers exist;
\* no worker is started after that, none is started twice, and a worker
\* terminates only from its receive, when the queue is closed and empty.
C12_WorkersBeforeStreaming == []C12_State /\ [][C12_Step]_vars

\* two workers were started, lines were read and sent, and both workers
\* have terminated
C12_Witness ==
    /\ numGo = 2
    /\ spawned = 2
    /\ idx = 2
    /\ sentLines # <<>>
    /\ \A w \in Workers : wk[w].pc = "done"

----------------------------------------------------------------------------
(* C13 *)

\* C13: areEqualJSON ignores the order of the members of an object and
\* respects the order of the elements of an array: two JSON texts compare
\* equal iff they denote the same value, objects being maps from key to
\* value and arrays sequences, at every depth; and the result is the same
\* with the two arguments exchanged.
C13_OrderRule ==
    pure.stage = "result" =>
        /\ (pure.a.canon # Invalid /\ pure.b.canon # Invalid) =>
              (pure.eq <=> pure.a.canon = pure.b.canon)
        /\ pure.eq = pure.qe

\* two texts of the same nested object whose members, and the members of a
\* member, are in different orders were compared and found equal
C13_Witness ==
    /\ pure.stage = "result"
    /\ pure.eq
    /\ pure.a.text # pure.b.text
    /\ pure.a.canon = <<"{", "sa">> \o <<":">> \o PayloadObj \o <<",", "sb", ":">>
                          \o PayloadArr \o <<"}">>
    /\ Head(Tail(pure.b.text)) = "sb"

\* [[1,2]] and [[2,1]] were compared and found unequal
C13_WitnessArray ==
    /\ pure.stage = "result"
    /\ ~pure.eq
    /\ pure.a.text = <<"[">> \o PayloadArr \o <<"]">>
    /\ pure.b.text = <<"[", "[", "2", ",", "1", "]", "]">>

----------------------------------------------------------------------------
(* C14 *)

\* the payload runQuery returns with an error
FailedPayload == runQuery(QueryError).resp

\* C14: areEqualJSON returns false whenever at least one of its two texts
\* is no JSON value, in either argument position, also when the two texts
\* are the same malformed text or both empty; the payloads of two failed
\* calls are therefore unequal.
C14_ParseFailureUnequal ==
    pure.stage = "result" =>
        /\ (pure.a.canon = Invalid \/ pure.b.canon = Invalid) =>
              ~pure.eq /\ ~pure.qe
        /\ (pure.a.text = FailedPayload /\ pure.b.text = FailedPayload) =>
              ~pure.eq

\* the same unterminated object was given twice and found unequal
C14_Witness ==
    /\ pure.stage = "result"
    /\ pure.a.text = <<"{">>
    /\ pure.b.text = <<"{">>
    /\ ~pure.eq

----------------------------------------------------------------------------
(* C15 *)

\* C15: extraction round-trip: getReq of the log line that encodes a
\* request returns a request with the same query text and the same map
\* from key to value, whatever the order of the bindings in the line, for
\* texts that may hold a double quote, '>' or '<'.
C15_RoundTrip ==
    pure.stage = "extracted" =>
        /\ pure.out.status = "ok"
        /\ pure.out.req.Query = pure.req.Query
        /\ pure.out.req.Vars = pure.req.Vars

\* the texts of the request hold none of  "  >  <
PlainRequest ==
    /\ \A i \in 1..Len(pure.req.Query) : pure.req.Query[i] = "c"
    /\ \A b \in 1..Len(pure.binds) :
          /\ \A i \in 1..Len(pure.binds[b][1]) : pure.binds[b][1][i] = "c"
          /\ \A i \in 1..Len(pure.binds[b][2]) : pure.binds[b][2][i] = "c"

\* the round trip of the requests written with letters only
C15_PlainRoundTrip == PlainRequest => C15_RoundTrip

----------------------------------------------------------------------------
(* C16 *)

ReporterStep == ReporterLoadTotal \/ ReporterLoadFailed \/ ReporterPrint

\* worker w has a next step whatever the reporter is doing: it holds a
\* request, or it waits on a queue that has an item or is closed
CanStep(w) ==
    /\ Alive
    /\ \/ w \in Busy
       \/ wk[w].pc = "recv" /\ (reqCh # <<>> \/ closed)

C16_State == \A w \in Workers : (ENABLED WorkerStep(w)) <=> CanStep(w)

C16_Step ==
    (ReporterStep \/ repVars' # repVars) =>
        UNCHANGED <<total, failed, reports, reqCh, closed, sentLines, wk,
                    wgCount, hist, prodVars>>

\* C16: the reporter is read-only and never blocks a worker: a step of the
\* reporter changes neither total nor failed, nor the queue, nor the state
\* of any worker or of the producer; and whether a worker can take its
\* next step depends on its own position and on the queue only, never on
\* where the reporter is.
C16_ReporterReadOnly == []C16_State /\ [][C16_Step]_vars

\* the reporter has loaded both counters and is about to print them while
\* a worker is in the middle of a request
C16_Witness ==
    /\ reppc = "print"
    /\ obsTotal = 1
    /\ obsFailed = 1
    /\ \E w \in Workers : wk[w].pc = "cmp" /\ CanStep(w)

----------------------------------------------------------------------------
(* C17 *)

\* how many times the event x is in ev
Count(ev, x) == Cardinality({ i \in 1..Len(ev) : ev[i] = x })

\* the calls of worker w that were started and have not returned
InFlightL(w) == Count(wk[w].ev, "Lcall") - Count(wk[w].ev, "Lret")
InFlightR(w) == Count(wk[w].ev, "Rcall") - Count(wk[w].ev, "Rret")

\* C17: a worker has at most one backend call in flight, never its left
\* and its right call together, so at most W calls are in flight on the
\* left backend, at most W on the right, and at most W on both together.
C17_OneCallPerWorker ==
    /\ \A w \in Workers :
         /\ InFlightL(w) \in {0, 1}
         /\ InFlightR(w) \in {0, 1}
         /\ InFlightL(w) + InFlightR(w) <= 1
         /\ InFlightL(w) = 1 <=> wk[w].pc = "waitL"
         /\ InFlightR(w) = 1 <=> wk[w].pc = "waitR"
    /\ hist.flyL = Cardinality({ w \in Workers : InFlightL(w) = 1 })
    /\ hist.flyR = Cardinality({ w \in Workers : InFlightR(w) = 1 })
    /\ hist.flyL <= numGo
    /\ hist.flyR <= numGo
    /\ hist.flyL + hist.flyR <= numGo

\* two workers: one call in flight on each backend; W calls on one backend
C17_Witness ==
    /\ numGo = 2
    /\ hist.flyL = 1
    /\ hist.flyR = 1

C17_WitnessFull ==
    /\ numGo = 2
    /\ hist.flyR = 2

----------------------------------------------------------------------------
(* C18 *)

\* the lines of the source for which getReq returns a request, in order
OkSeq ==
    LET Ok(i) == Extracted[lines[i]].status = "ok"
    IN SelectSeq([i \in 1..Len(lines) |-> i], Ok)

\* C18: with W >= 1 every line of the source for which extraction succeeds
\* is enqueued exactly once, in source order, before the queue is closed,
\* whatever the lengths of the lines: when the queue is closed the requests
\* sent are those of all the extractable lines of the source, and the final
\* total is their number.
C18_AllExtractableSent ==
    /\ (numGo >= 1 /\ closed) => sentLines = OkSeq
    /\ (numGo >= 1 /\ Returned) => total = Len(OkSeq)

\* the same for the sources whose lines all fit the scanner's buffer and
\* on which getReq does not panic
C18_ShortLinesSent ==
    (\A i \in 1..Len(lines) :
        Fits(lines[i]) /\ Extracted[lines[i]].status # "panic")
    => C18_AllExtractableSent

----------------------------------------------------------------------------
(* C19 *)

C19_State ==
    /\ hist.closes <= 1
    /\ closed <=> hist.closes = 1
    /\ (numGo >= 1 /\ Returned) => closed
    /\ closed => prodpc = "done" /\ pending = NoReq
    /\ prodpc = "send" => ~closed
    /\ \A w \in Workers :
          wk[w].pc = "done" =>
             /\ closed
             /\ reqCh = <<>>
             /\ Len(sentLines) = total + Cardinality(Busy)

C19_Step ==
    /\ closed => closed'
    /\ closed => sentLines' = sentLines
    /\ closed => (reqCh' = reqCh \/ (reqCh # <<>> /\ reqCh' = Tail(reqCh)))
    /\ closed' # closed =>
          /\ prodpc = "scan"
          /\ prodpc' = "done"
          /\ pending = NoReq
          /\ reqCh' = reqCh
          /\ wk' = wk

\* C19: the queue is closed at most once, and once when processLog returns
\* with W >= 1, by the producer on leaving its loop, with no request left
\* in its hand; nothing is sent after the close; the
\* close leaves the buffered requests in the queue, they leave it only by
\* being received, and a worker terminates only when the queue is closed
\* and empty, every request sent having been received.
C19_CloseOnce == []C19_State /\ [][C19_Step]_vars

\* the queue was closed with two requests still buffered, and a worker is
\* about to receive
C19_Witness ==
    /\ closed
    /\ hist.closes = 1
    /\ Len(reqCh) = 2
    /\ \E w \in Workers : wk[w].pc = "recv"

----------------------------------------------------------------------------
(* C20 *)

\* the workers that have added 1 to failed for the request they hold and
\* have not yet added 1 to total
Ahead ==
    { w \in Workers :
        /\ wk[w].pc \in {"report", "addTotal"}
        /\ Count(wk[w].ev, "failed++") = 1 }

\* C20: failed <= total + k in every state, k being the number of workers
\* between their increment of failed and their increment of total; so
\* failed - total is at most W, and failed <= total whenever k = 0, in
\* particular when processLog has returned.
C20_FailedWithinK ==
    /\ failed <= total + Cardinality(Ahead)
    /\ failed - total <= numGo
    /\ Ahead = {} => failed <= total
    /\ Returned => Ahead = {} /\ failed <= total

\* both of two workers are between their two increments: failed is W ahead
C20_Witness ==
    /\ numGo = 2
    /\ Cardinality(Ahead) = 2
    /\ failed = 2
    /\ total = 0

====
